---- MODULE Spec2Model ----
(***************************************************************************)
(* bckt-mcp: the formatting and path-computation engine of package         *)
(* commands (FormatContent, validateFrontMatter, computePath) and the      *)
(* process-wide configuration it is called with.                           *)
(*                                                                         *)
(* A Go string is a sequence of one-character strings.  A front-matter     *)
(* value (interface{}) is a tagged record: [t |-> "str", v |-> chars],     *)
(* [t |-> "arr", v |-> <<chars, ...>>] or [t |-> "bool", v |-> BOOLEAN].   *)
(* A Go map is a TLA+ function from its keys; Nil stands for a nil pointer *)
(* or a nil map.                                                           *)
(***************************************************************************)
EXTENDS Integers, Sequences, FiniteSets, TLC

VARIABLES
    pc,            \* position of the process / of the call under check
    args,          \* arguments of the call under check
    ret,           \* what the call returned
    globalConfig,  \* the server's *Config (Nil before it is loaded or when loading failed)
    configFile,    \* ~/.config/bckt-mcp/config.toml
    files,         \* the files and directories the process has created
    stdin,         \* the lines the process has still to read
    stdout         \* the lines the process has written

vars == <<pc, args, ret, globalConfig, configFile, files, stdin, stdout>>

\* what the specifications that do no I/O leave alone
io == <<files, stdin, stdout>>
NoIO == files = {} /\ stdin = <<>> /\ stdout = <<>>

Nil == [nil |-> TRUE]
None == [kind |-> "none"]

(***************************************************************************)
(* Bounds                                                                  *)
(***************************************************************************)
\* longest generated date string of SpecPath
MaxDateLen == 4
MaxTitleLen == 4
MaxPieces == 4
MaxCalls == 2
MaxLines == 2

(***************************************************************************)
(* strings                                                                 *)
(***************************************************************************)
\* strings.Split(s, sep) for a one-character separator: always at least one part
RECURSIVE Split(_, _)
Split(s, sep) ==
    IF \A i \in 1..Len(s) : s[i] # sep
    THEN <<s>>
    ELSE LET i == CHOOSE k \in 1..Len(s) : s[k] = sep /\ \A j \in 1..(k - 1) : s[j] # sep
         IN  <<SubSeq(s, 1, i - 1)>> \o Split(SubSeq(s, i + 1, Len(s)), sep)

\* strings.ReplaceAll(s, old, new), old not empty: non-overlapping occurrences, left to right
RECURSIVE ReplaceAll(_, _, _)
ReplaceAll(s, old, new) ==
    IF Len(s) < Len(old)
    THEN s
    ELSE IF SubSeq(s, 1, Len(old)) = old
         THEN new \o ReplaceAll(SubSeq(s, Len(old) + 1, Len(s)), old, new)
         ELSE <<s[1]>> \o ReplaceAll(Tail(s), old, new)

PhYear == <<"{", "y", "y", "y", "y", "}">>
PhMonth == <<"{", "M", "M", "}">>
PhDay == <<"{", "D", "D", "}">>
PhSlug == <<"{", "s", "l", "u", "g", "}">>

(***************************************************************************)
(* computePath                                                             *)
(***************************************************************************)
\* date[:10] when the date has at least 10 characters, the whole date otherwise
datePart(date) == IF Len(date) >= 10 THEN SubSeq(date, 1, 10) ELSE date

\* the guard of the fallback: "len(parts) < 3"
computePathFallback(parts) == Len(parts) < 3

computePath(pattern, date, slug) ==
    LET parts == Split(datePart(date), "-")
    IN  IF computePathFallback(parts)
        THEN pattern
        ELSE LET p1 == ReplaceAll(pattern, PhYear, parts[1])
                 p2 == ReplaceAll(p1, PhMonth, parts[2])
                 p3 == ReplaceAll(p2, PhDay, parts[3])
             IN  ReplaceAll(p3, PhSlug, slug)

(***************************************************************************)
(* SpecPath: computePath applied to bounded inputs                         *)
(***************************************************************************)
DefaultPattern == <<"p", "o", "s", "t", "s", "/", "{", "y", "y", "y", "y", "}", "/", "{", "y", "y", "y", "y", "}", "-", "{", "M", "M", "}", "-", "{", "D", "D", "}", "-", "{", "s", "l", "u", "g", "}", "/", "{", "s", "l", "u", "g", "}", ".", "m", "d">>

Patterns ==
    { DefaultPattern,
      <<"{", "y", "y", "y", "y", "}", "/", "{", "M", "M", "}", "/", "{", "D", "D", "}", "/", "{", "s", "l", "u", "g", "}">>,
      <<"a", "{", "D", "D", "}", "{", "D", "D", "}">>,
      <<"{", "s", "l", "u", "g", "}", ".", "m", "d">>,
      <<"{", "y", "y", "y", "}", "-", "{", "m", "m", "}">>,
      <<"p", ".", "m", "d">>,
      <<>> }

NotADate == <<"n", "o", "t", "-", "a", "-", "d", "a", "t", "e">>
FullDate == <<"2", "0", "2", "5", "-", "1", "0", "-", "0", "7", " ", "1", "2", ":", "0", "0", ":", "0", "0", " ", "+", "0", "0", "0", "0">>

\* a date whose year component reads as a placeholder
PlaceholderDate == <<"{", "D", "D", "}", "-", "1", "0", "-", "0", "7">>

\* every string over {"7", "-"} of at most MaxDateLen characters
ShortDates == UNION { [1..n -> {"7", "-"}] : n \in 0..MaxDateLen }

Dates ==
    ShortDates \cup
    { NotADate, FullDate,
      <<"2", "0", "2", "5", "-", "1", "0", "-", "0", "7">>,
      <<"2", "0", "2", "5", "1", "0", "0", "7", "1", "2", "-", "0", "0", "-", "0", "0">>,
      <<"2", "0", "2", "5", "-", "1", "0", "0", "7", "1", "2", "-", "0", "0">>,
      <<"1", "-", "2", "-", "3", "-", "4", "-", "5", "-", "6">>,
      PlaceholderDate }

Slugs == { <<"m", "y", "-", "p", "o", "s", "t">>, <<"{", "M", "M", "}">>, <<>> }

InitPath ==
    /\ pc = "call"
    /\ args \in [pattern : Patterns, date : Dates, slug : Slugs]
    /\ ret = None
    /\ globalConfig = Nil
    /\ configFile = Nil
    /\ NoIO

CallComputePath ==
    /\ pc = "call"
    /\ pc' = "done"
    /\ ret' = [kind |-> "path", path |-> computePath(args.pattern, args.date, args.slug)]
    /\ UNCHANGED <<args, globalConfig, configFile, io>>

NextPath == CallComputePath

SpecPath == InitPath /\ [][NextPath]_vars

\* C1: computePath(pattern, "not-a-date", slug) returns the pattern unchanged,
\* for every pattern and slug.
C1_NotADateUnchanged ==
    (pc = "done" /\ args.date = NotADate) => ret.path = args.pattern

\* C2: whenever the date prefix does not split on '-' into exactly three
\* components (fewer or more), the pattern is returned unchanged.
C2_NotThreePartsUnchanged ==
    (pc = "done" /\ Len(Split(datePart(args.date), "-")) # 3) => ret.path = args.pattern

(***************************************************************************)
(* validateFrontMatter                                                     *)
(***************************************************************************)
\* fmt.Errorf("<msg>: %s", arg)
Errorf(msg, arg) == [msg |-> msg, arg |-> arg]

\* the elements of a sequence
Range(s) == { s[i] : i \in 1..Len(s) }

\* every order in which a range over a map with these keys may visit them
RECURSIVE rangeOrders(_)
rangeOrders(keys) ==
    IF keys = {}
    THEN { <<>> }
    ELSE UNION { { <<k>> \o o : o \in rangeOrders(keys \ {k}) } : k \in keys }

\* the front-matter keys of the model in sorted order
SortedKeys == <<"abstract", "date", "extra", "lang", "note", "slug", "tags", "title">>

\* The two range loops of validateFrontMatter do nothing at a key of the
\* required set, so their result depends only on the order in which the other
\* keys are visited.  One order for each such order of the other keys: the
\* required keys first, then the others in every order.
rangeOrdersModulo(keys, required) ==
    { SelectSeq(SortedKeys, LAMBDA k : k \in keys \cap required) \o o : o \in rangeOrders(keys \ required) }

\* the loop over cfg.FrontMatter.Required from index i on: the index of the
\* first field that is not a key of fm, 0 when the loop runs to its end
RECURSIVE requiredLoop(_, _, _)
requiredLoop(fm, required, i) ==
    IF i > Len(required)
    THEN 0
    ELSE IF required[i] \notin DOMAIN fm
         THEN i
         ELSE requiredLoop(fm, required, i + 1)

\* mutant of strictLoop: the test "!required[key]" inverted
RECURSIVE strictLoop_Inverted(_, _)
strictLoop_Inverted(order, required) ==
    IF order = <<>>
    THEN Nil
    ELSE IF Head(order) \in required
         THEN Errorf("unknown field in strict mode", Head(order))
         ELSE strictLoop_Inverted(Tail(order), required)

\* "for key := range fm" of the strict branch, visiting the keys in this
\* order: the first key outside required ends the loop with an error
RECURSIVE strictLoop(_, _)
strictLoop(order, required) ==
    IF order = <<>>
    THEN Nil
    ELSE IF Head(order) \notin required
         THEN Errorf("unknown field in strict mode", Head(order))
         ELSE strictLoop(Tail(order), required)

\* mutant of lenientLoop: the loop ends after its first warning
RECURSIVE lenientLoop_FirstOnly(_, _)
lenientLoop_FirstOnly(order, required) ==
    IF order = <<>>
    THEN <<>>
    ELSE IF Head(order) \notin required
         THEN <<Errorf("unknown field", Head(order))>>
         ELSE lenientLoop_FirstOnly(Tail(order), required)

\* "for key := range fm" of the lenient branch: one warning for each key
\* outside required, appended in the order of the visit
RECURSIVE lenientLoop(_, _)
lenientLoop(order, required) ==
    IF order = <<>>
    THEN <<>>
    ELSE IF Head(order) \notin required
         THEN <<Errorf("unknown field", Head(order))>> \o lenientLoop(Tail(order), required)
         ELSE lenientLoop(Tail(order), required)

\* mutant of validateFrontMatter: the strict unknown-field check runs before
\* the required-field check
validateFrontMatter_UnknownFirst(fm, cfg, strict, order) ==
    LET missing == requiredLoop(fm, cfg.Required, 1)
        required == Range(cfg.Required)
    IN  IF strict /\ strictLoop(order, required) # Nil
        THEN [warnings |-> <<>>, err |-> strictLoop(order, required)]
        ELSE IF missing # 0
             THEN [warnings |-> <<>>, err |-> Errorf("missing required field", cfg.Required[missing])]
             ELSE [warnings |-> IF strict THEN <<>> ELSE lenientLoop(order, required), err |-> Nil]

\* validateFrontMatter(fm, cfg, strict), the range over fm visiting its keys
\* in the given order; returns (warnings, err)
validateFrontMatter(fm, cfg, strict, order) ==
    LET missing == requiredLoop(fm, cfg.Required, 1)
        required == Range(cfg.Required)
    IN  IF missing # 0
        THEN [warnings |-> <<>>, err |-> Errorf("missing required field", cfg.Required[missing])]
        ELSE IF strict
             THEN [warnings |-> <<>>, err |-> strictLoop(order, required)]
             ELSE [warnings |-> lenientLoop(order, required), err |-> Nil]

(***************************************************************************)
(* SpecValidate: validateFrontMatter applied to bounded inputs             *)
(***************************************************************************)
StrV(chars) == [t |-> "str", v |-> chars]
ArrV(elems) == [t |-> "arr", v |-> elems]
BoolV(b) == [t |-> "bool", v |-> b]

ValidateKeys == {"title", "slug", "date", "extra", "note"}

RequiredLists ==
    { <<>>,
      <<"title", "slug">>,
      <<"slug", "title">>,
      <<"title", "slug", "date">>,
      <<"date", "title", "date">> }

InitValidate ==
    /\ pc = "call"
    /\ \E keys \in SUBSET ValidateKeys, required \in RequiredLists, strict \in BOOLEAN :
          args = [fm |-> [k \in keys |-> BoolV(TRUE)],
                  cfg |-> [Required |-> required],
                  strict |-> strict]
    /\ ret = None
    /\ globalConfig = Nil
    /\ configFile = Nil
    /\ NoIO

CallValidateFrontMatter ==
    /\ pc = "call"
    /\ pc' = "done"
    /\ \E order \in rangeOrders(DOMAIN args.fm) :
          ret' = validateFrontMatter(args.fm, args.cfg, args.strict, order)
    /\ UNCHANGED <<args, globalConfig, configFile, io>>

NextValidate == CallValidateFrontMatter

SpecValidate == InitValidate /\ [][NextValidate]_vars

\* the keys of the mapping outside the required set
UnknownKeys == DOMAIN args.fm \ Range(args.cfg.Required)
\* some / no field of the required list is absent from the mapping
SomeRequiredAbsent == \E i \in DOMAIN args.cfg.Required : args.cfg.Required[i] \notin DOMAIN args.fm
AllRequiredPresent == ~SomeRequiredAbsent

\* Every range order gives the result of the order rangeOrdersModulo keeps for it.
RangeOrderLemma ==
    \A o \in rangeOrders(DOMAIN args.fm) :
        LET required == Range(args.cfg.Required)
            kept == SelectSeq(SortedKeys, LAMBDA k : k \in DOMAIN args.fm \cap required)
                        \o SelectSeq(o, LAMBDA k : k \notin required)
        IN  /\ kept \in rangeOrdersModulo(DOMAIN args.fm, required)
            /\ validateFrontMatter(args.fm, args.cfg, args.strict, o)
                   = validateFrontMatter(args.fm, args.cfg, args.strict, kept)

\* C7: when a required field is absent, validateFrontMatter fails with
\* "missing required field: <f>", f the first absent field in required-list
\* order, whatever the mode and the other keys, and returns no warnings.
C7_MissingRequiredFirst ==
    (pc = "done" /\ SomeRequiredAbsent) =>
        /\ ret.err # Nil
        /\ ret.err.msg = "missing required field"
        /\ \E i \in DOMAIN args.cfg.Required :
              /\ args.cfg.Required[i] \notin DOMAIN args.fm
              /\ \A j \in 1..(i - 1) : args.cfg.Required[j] \in DOMAIN args.fm
              /\ ret.err.arg = args.cfg.Required[i]
        /\ ret.warnings = <<>>

\* C7 witness: strict mode, an unknown key in the mapping, the first required
\* field present and a later one absent: the failure names the absent one.
C7_Witness ==
    /\ pc = "done"
    /\ args.strict
    /\ UnknownKeys # {}
    /\ args.cfg.Required = <<"title", "slug", "date">>
    /\ "title" \in DOMAIN args.fm
    /\ "slug" \notin DOMAIN args.fm
    /\ "date" \notin DOMAIN args.fm
    /\ ret.err = Errorf("missing required field", "slug")

\* C8: in strict mode with every required field present, validateFrontMatter
\* fails iff the mapping has a key outside the required set, the failure
\* "unknown field in strict mode: <k>" names such a key, and without such a key
\* it succeeds with no warnings.
C8_StrictUnknown ==
    (pc = "done" /\ args.strict /\ AllRequiredPresent) =>
        /\ (ret.err # Nil) <=> (UnknownKeys # {})
        /\ ret.err # Nil =>
              /\ ret.err.msg = "unknown field in strict mode"
              /\ ret.err.arg \in UnknownKeys
        /\ ret.warnings = <<>>

\* C8 witness: strict mode, required fields present, two keys outside the
\* required set, the failure names one of them.
C8_Witness ==
    /\ pc = "done"
    /\ args.strict
    /\ AllRequiredPresent
    /\ args.cfg.Required # <<>>
    /\ Cardinality(UnknownKeys) >= 2
    /\ ret.err = Errorf("unknown field in strict mode", "note")

\* C9: in lenient mode with every required field present, validateFrontMatter
\* never fails and returns exactly one warning "unknown field: <k>" for each
\* key k outside the required set, and none for a required key.
C9_LenientWarnings ==
    (pc = "done" /\ ~args.strict /\ AllRequiredPresent) =>
        /\ ret.err = Nil
        /\ Len(ret.warnings) = Cardinality(UnknownKeys)
        /\ \A k \in UnknownKeys : \E i \in DOMAIN ret.warnings : ret.warnings[i] = Errorf("unknown field", k)
        /\ \A i \in DOMAIN ret.warnings :
              ret.warnings[i].msg = "unknown field" /\ ret.warnings[i].arg \in UnknownKeys

\* C9 witness: lenient mode, required fields present next to two keys outside
\* the required set, both reported.
C9_Witness ==
    /\ pc = "done"
    /\ ~args.strict
    /\ AllRequiredPresent
    /\ args.cfg.Required # <<>>
    /\ UnknownKeys = {"extra", "note"}
    /\ Len(ret.warnings) = 2

(***************************************************************************)
(* strings, continued: trimming, slugify, wrapText, filepath.Join          *)
(***************************************************************************)
\* the ASCII characters unicode.IsSpace accepts
Space == {" ", "\t", "\n", "\r", "\f"}

RECURSIVE TrimLeft(_, _)
TrimLeft(s, cutset) ==
    IF s # <<>> /\ s[1] \in cutset THEN TrimLeft(Tail(s), cutset) ELSE s

RECURSIVE TrimRight(_, _)
TrimRight(s, cutset) ==
    IF s # <<>> /\ s[Len(s)] \in cutset THEN TrimRight(SubSeq(s, 1, Len(s) - 1), cutset) ELSE s

Trim(s, cutset) == TrimRight(TrimLeft(s, cutset), cutset)

\* strings.TrimSpace
TrimSpace(s) == Trim(s, Space)

\* strings.Join(elems, sep)
RECURSIVE Join(_, _)
Join(elems, sep) ==
    IF elems = <<>>
    THEN <<>>
    ELSE IF Len(elems) = 1
         THEN elems[1]
         ELSE elems[1] \o sep \o Join(Tail(elems), sep)

UpperLetters == <<"A", "B", "C", "D", "E", "F", "G", "H", "I", "J", "K", "L", "M", "N", "O", "P", "Q", "R", "S", "T", "U", "V", "W", "X", "Y", "Z">>
LowerLetters == <<"a", "b", "c", "d", "e", "f", "g", "h", "i", "j", "k", "l", "m", "n", "o", "p", "q", "r", "s", "t", "u", "v", "w", "x", "y", "z">>
Digits == {"0", "1", "2", "3", "4", "5", "6", "7", "8", "9"}

\* strings.ToLower on ASCII
ToLower(s) ==
    [i \in 1..Len(s) |->
        IF \E j \in DOMAIN UpperLetters : UpperLetters[j] = s[i]
        THEN LowerLetters[CHOOSE j \in DOMAIN UpperLetters : UpperLetters[j] = s[i]]
        ELSE s[i]]

\* the characters the class [a-z0-9] matches
SlugChars == Range(LowerLetters) \cup Digits

\* the rest of s after its leading run of characters outside [a-z0-9]
RECURSIVE skipRun(_)
skipRun(s) == IF s # <<>> /\ s[1] \notin SlugChars THEN skipRun(Tail(s)) ELSE s

\* mutant of replaceRuns: the expression without "+", one "-" for each character
RECURSIVE replaceRuns_EachChar(_)
replaceRuns_EachChar(s) ==
    IF s = <<>>
    THEN <<>>
    ELSE IF s[1] \in SlugChars
         THEN <<s[1]>> \o replaceRuns_EachChar(Tail(s))
         ELSE <<"-">> \o replaceRuns_EachChar(Tail(s))

\* regexp `[^a-z0-9]+` ReplaceAllString(s, "-")
RECURSIVE replaceRuns(_)
replaceRuns(s) ==
    IF s = <<>>
    THEN <<>>
    ELSE IF s[1] \in SlugChars
         THEN <<s[1]>> \o replaceRuns(Tail(s))
         ELSE <<"-">> \o replaceRuns(skipRun(s))

slugify(s) == Trim(replaceRuns(ToLower(s)), {"-"})

\* strings.Fields: the maximal runs of non-space characters
RECURSIVE Fields(_)
Fields(s) ==
    LET t == TrimLeft(s, Space)
    IN  IF t = <<>>
        THEN <<>>
        ELSE LET n == IF \E i \in 1..Len(t) : t[i] \in Space
                      THEN CHOOSE i \in 1..Len(t) : t[i] \in Space /\ \A j \in 1..(i - 1) : t[j] \notin Space
                      ELSE Len(t) + 1
             IN  <<SubSeq(t, 1, n - 1)>> \o Fields(SubSeq(t, n, Len(t)))

\* mutant of packWords: the fit test leaves out the joining space
RECURSIVE packWords_NoSpaceCount(_, _, _)
packWords_NoSpaceCount(words, current, width) ==
    IF words = <<>>
    THEN IF Len(current) > 0 THEN <<current>> ELSE <<>>
    ELSE IF Len(current) = 0
         THEN packWords_NoSpaceCount(Tail(words), Head(words), width)
         ELSE IF Len(current) + Len(Head(words)) <= width
              THEN packWords_NoSpaceCount(Tail(words), current \o <<" ">> \o Head(words), width)
              ELSE <<current>> \o packWords_NoSpaceCount(Tail(words), Head(words), width)

\* the loop over the words of one long line; current is the strings.Builder
RECURSIVE packWords(_, _, _)
packWords(words, current, width) ==
    IF words = <<>>
    THEN IF Len(current) > 0 THEN <<current>> ELSE <<>>
    ELSE IF Len(current) = 0
         THEN packWords(Tail(words), Head(words), width)
         ELSE IF Len(current) + 1 + Len(Head(words)) <= width
              THEN packWords(Tail(words), current \o <<" ">> \o Head(words), width)
              ELSE <<current>> \o packWords(Tail(words), Head(words), width)

\* mutant of wrapLine: short lines are packed as well
wrapLine_AlwaysPack(line, width) == packWords(Fields(line), <<>>, width)

\* the body of the loop over the source lines: the output lines of one line
wrapLine(line, width) ==
    IF Len(line) <= width THEN <<line>> ELSE packWords(Fields(line), <<>>, width)

RECURSIVE wrapLines(_, _)
wrapLines(lines, width) ==
    IF lines = <<>> THEN <<>> ELSE wrapLine(Head(lines), width) \o wrapLines(Tail(lines), width)

\* mutant of wrapText: only negative widths return the text as it is
wrapText_NegativeOnly(text, width) ==
    IF width < 0 THEN text ELSE Join(wrapLines(Split(text, "\n"), width), <<"\n">>)

wrapText(text, width) ==
    IF width < 20 THEN text ELSE Join(wrapLines(Split(text, "\n"), width), <<"\n">>)

\* the ".." and "." handling of filepath.Clean on the components of a path
RECURSIVE cleanParts(_, _, _)
cleanParts(parts, stack, rooted) ==
    IF parts = <<>>
    THEN stack
    ELSE LET c == Head(parts)
         IN  IF c = <<>> \/ c = <<".">>
             THEN cleanParts(Tail(parts), stack, rooted)
             ELSE IF c = <<".", ".">>
                  THEN IF stack # <<>> /\ stack[Len(stack)] # <<".", ".">>
                       THEN cleanParts(Tail(parts), SubSeq(stack, 1, Len(stack) - 1), rooted)
                       ELSE IF rooted
                            THEN cleanParts(Tail(parts), stack, rooted)
                            ELSE cleanParts(Tail(parts), Append(stack, c), rooted)
                  ELSE cleanParts(Tail(parts), Append(stack, c), rooted)

\* filepath.Clean (Unix)
pathClean(path) ==
    LET rooted == path # <<>> /\ path[1] = "/"
        body == Join(cleanParts(Split(path, "/"), <<>>, rooted), <<"/">>)
    IN  IF rooted
        THEN <<"/">> \o body
        ELSE IF body = <<>> THEN <<".">> ELSE body

\* filepath.Join(a, b) (Unix): empty elements are ignored, the result is cleaned
pathJoin(a, b) ==
    IF a = <<>> /\ b = <<>>
    THEN <<>>
    ELSE IF a = <<>>
         THEN pathClean(b)
         ELSE IF b = <<>> THEN pathClean(a) ELSE pathClean(a \o <<"/">> \o b)

(***************************************************************************)
(* Config: built-in defaults, the TOML decoder, the persisted file         *)
(***************************************************************************)
\* mutant of GetDefaultConfig: no defaults mapping
GetDefaultConfig_NoLang ==
    [RootPath |-> <<>>, Timezone |-> "UTC", PathPattern |-> DefaultPattern,
     Required |-> <<"title", "slug", "date", "tags", "abstract", "lang">>,
     Defaults |-> Nil, WrapAt |-> 100]

\* var cfg Config: the zero value (a nil slice is the empty sequence)
ZeroConfig ==
    [RootPath |-> <<>>, Timezone |-> "", PathPattern |-> <<>>,
     Required |-> <<>>, Defaults |-> Nil, WrapAt |-> 0]

GetDefaultConfig ==
    [RootPath |-> <<>>, Timezone |-> "UTC", PathPattern |-> DefaultPattern,
     Required |-> <<"title", "slug", "date", "tags", "abstract", "lang">>,
     Defaults |-> [k \in {"lang"} |-> StrV(<<"e", "n">>)],
     WrapAt |-> 100]

\* A TOML text is modelled by what the parser makes of it: ok = FALSE when the
\* text does not parse, else set = the keys the document sets with their
\* values ("root_path", "timezone", "path_pattern", "required", "defaults",
\* "wrap_at"; the last three stand for front_matter.required,
\* front_matter.defaults and markdown_rules.wrap_at).
TomlBad == [ok |-> FALSE, set |-> <<>>]
TomlDoc(set) == [ok |-> TRUE, set |-> set]

\* a text that parses and holds a value of the wrong type for its field (a
\* string for wrap_at): the decoder returns an error when it reaches that
\* value.  It ranges over the keys of a table in map order, so the keys it
\* has written to the destination by then, `before`, are any of the
\* document's other keys.
TomlMistyped(before) == [ok |-> FALSE, set |-> before, mistyped |-> TRUE]

\* the decoder has written the keys of doc.set to the destination
unified(doc) == doc.ok \/ "mistyped" \in DOMAIN doc

\* the decoder writing the keys of a [front_matter.defaults] table into a map:
\* an existing map is kept and written into, a nil map is allocated
unifyMap(old, new) ==
    IF old = Nil
    THEN new
    ELSE [k \in DOMAIN old \cup DOMAIN new |-> IF k \in DOMAIN new THEN new[k] ELSE old[k]]

\* toml.Unmarshal(text, &cfg): the value of cfg afterwards.  Keys the document
\* does not set leave their field alone; a text that does not parse leaves
\* cfg alone; a text with a mistyped value leaves in cfg what was written
\* before the error.
tomlUnmarshal(doc, cfg) ==
    IF ~unified(doc)
    THEN cfg
    ELSE LET has(k) == k \in DOMAIN doc.set
         IN  [RootPath |-> IF has("root_path") THEN doc.set["root_path"] ELSE cfg.RootPath,
              Timezone |-> IF has("timezone") THEN doc.set["timezone"] ELSE cfg.Timezone,
              PathPattern |-> IF has("path_pattern") THEN doc.set["path_pattern"] ELSE cfg.PathPattern,
              Required |-> IF has("required") THEN doc.set["required"] ELSE cfg.Required,
              Defaults |-> IF has("defaults") THEN unifyMap(cfg.Defaults, doc.set["defaults"]) ELSE cfg.Defaults,
              WrapAt |-> IF has("wrap_at") THEN doc.set["wrap_at"] ELSE cfg.WrapAt]

\* "cfg = *globalConfig" copies the struct, not what its map and slice fields
\* point to; this is *globalConfig after toml.Unmarshal(text, &cfg) wrote
\* through the copy: the map when it was not nil, and the first elements of the
\* slice's array when its capacity (= its length) holds the decoded list.
tomlUnmarshalShared(doc, orig) ==
    IF ~unified(doc)
    THEN orig
    ELSE LET has(k) == k \in DOMAIN doc.set
             n == IF has("required") THEN Len(doc.set["required"]) ELSE 0
         IN  [orig EXCEPT
                !.Defaults = IF has("defaults") /\ orig.Defaults # Nil
                             THEN unifyMap(orig.Defaults, doc.set["defaults"])
                             ELSE @,
                !.Required = IF has("required") /\ n <= Len(orig.Required)
                             THEN doc.set["required"] \o SubSeq(orig.Required, n + 1, Len(orig.Required))
                             ELSE @]

\* the TOML encoder's output for cfg, as the parser reads it back: nil map and
\* nil slice are left out
tomlEncode(cfg) ==
    LET keys == {"root_path", "timezone", "path_pattern", "wrap_at"}
                \cup (IF cfg.Required # <<>> THEN {"required"} ELSE {})
                \cup (IF cfg.Defaults # Nil THEN {"defaults"} ELSE {})
    IN  TomlDoc([k \in keys |->
            CASE k = "root_path" -> cfg.RootPath
              [] k = "timezone" -> cfg.Timezone
              [] k = "path_pattern" -> cfg.PathPattern
              [] k = "wrap_at" -> cfg.WrapAt
              [] k = "required" -> cfg.Required
              [] k = "defaults" -> cfg.Defaults])

\* the config file does not exist
NoFile == [ok |-> FALSE, set |-> <<"absent">>]

\* os.UserHomeDir fails: the process has no path to a config file
NoHome == [ok |-> FALSE, set |-> <<"nohome">>]

\* LoadGlobalConfig: the *Config it returns
LoadGlobalConfig(file) ==
    IF file = NoHome
    THEN Nil
    ELSE IF file = NoFile
         THEN GetDefaultConfig
         ELSE IF ~file.ok
              THEN Nil
              ELSE tomlUnmarshal(file, ZeroConfig)

\* LoadGlobalConfig: the config file afterwards; saved tells whether
\* SaveGlobalConfig succeeded in creating the missing file
LoadGlobalConfigFile(file, saved) ==
    IF file = NoFile /\ saved THEN tomlEncode(GetDefaultConfig) ELSE file

(***************************************************************************)
(* FormatContent                                                           *)
(***************************************************************************)
\* FormatInput.Config == "": no inline override
TomlEmpty == [ok |-> FALSE, set |-> <<"empty">>]

\* errors.New / fmt.Errorf without an argument
ErrorNew(msg) == [msg |-> msg, arg |-> ""]

\* a map (nil or not) as a function: ranging over a nil map visits nothing
mapOf(m) == IF m = Nil THEN [k \in {} |-> Nil] ELSE m

\* frontMatter[k] = v
withKey(fm, k, v) == [x \in DOMAIN fm \cup {k} |-> IF x = k THEN v ELSE fm[x]]

\* "var cfg Config; if globalConfig != nil { cfg = *globalConfig } else { cfg = GetDefaultConfig() }"
startConfig(gc) == IF gc # Nil THEN gc ELSE GetDefaultConfig

\* the configuration the call works with: cfg after the inline override
effectiveConfig(input, gc) ==
    IF input.Config # TomlEmpty
    THEN tomlUnmarshal(input.Config, startConfig(gc))
    ELSE startConfig(gc)

\* *globalConfig as the caller finds it when FormatContent has returned
configAfterFormat(input, gc) ==
    IF gc # Nil /\ input.Config # TomlEmpty
    THEN tomlUnmarshalShared(input.Config, gc)
    ELSE gc

\* mutant of buildFrontMatter: the defaults win over the user metadata
buildFrontMatter_DefaultsWin(cfg, meta) ==
    LET d == mapOf(cfg.Defaults)
        m == mapOf(meta)
    IN  [k \in DOMAIN d \cup DOMAIN m |-> IF k \in DOMAIN d THEN d[k] ELSE m[k]]

\* the defaults, then the user metadata key by key
buildFrontMatter(cfg, meta) ==
    LET d == mapOf(cfg.Defaults)
        m == mapOf(meta)
    IN  [k \in DOMAIN d \cup DOMAIN m |-> IF k \in DOMAIN m THEN m[k] ELSE d[k]]

\* mutant of titleOK: the title compared with "" without strings.TrimSpace
titleOK_NoTrim(fm) ==
    /\ "title" \in DOMAIN fm
    /\ fm["title"].t = "str"
    /\ fm["title"].v # <<>>

\* "title, ok := frontMatter["title"].(string); !ok || strings.TrimSpace(title) == """ is false
titleOK(fm) ==
    /\ "title" \in DOMAIN fm
    /\ fm["title"].t = "str"
    /\ TrimSpace(fm["title"].v) # <<>>

\* mutant of loadLocation: a name that does not resolve gives another zone
loadLocation_OtherZone(name) ==
    IF name \in {"UTC", ""} THEN "UTC" ELSE "Asia/Tokyo"

\* time.LoadLocation(name): the location, UTC when the name does not resolve
loadLocation(name) ==
    IF name \in {"UTC", ""} THEN "UTC" ELSE IF name = "Asia/Tokyo" THEN "Asia/Tokyo" ELSE "UTC"

\* the instants the clock may show
Instants == {"i1", "i2"}

\* time.Now().In(loc).Format("2006-01-02 15:04:05 -0700") at an instant
timeFormat(now, loc) ==
    CASE now = "i1" /\ loc = "UTC" -> <<"2", "0", "2", "5", "-", "1", "0", "-", "0", "7", " ", "2", "3", ":", "3", "0", ":", "0", "0", " ", "+", "0", "0", "0", "0">>
      [] now = "i1" /\ loc = "Asia/Tokyo" -> <<"2", "0", "2", "5", "-", "1", "0", "-", "0", "8", " ", "0", "8", ":", "3", "0", ":", "0", "0", " ", "+", "0", "9", "0", "0">>
      [] now = "i2" /\ loc = "UTC" -> <<"2", "0", "2", "6", "-", "0", "1", "-", "0", "1", " ", "0", "0", ":", "0", "0", ":", "0", "0", " ", "+", "0", "0", "0", "0">>
      [] now = "i2" /\ loc = "Asia/Tokyo" -> <<"2", "0", "2", "6", "-", "0", "1", "-", "0", "1", " ", "0", "9", ":", "0", "0", ":", "0", "0", " ", "+", "0", "9", "0", "0">>

\* mutant of deriveFields: the date is set from the clock also when supplied
deriveFields_DateAlways(fm, cfg, now) ==
    LET f1 == IF "slug" \notin DOMAIN fm THEN withKey(fm, "slug", StrV(slugify(fm["title"].v))) ELSE fm
        f2 == withKey(f1, "date", StrV(timeFormat(now, loadLocation(cfg.Timezone))))
        f3 == IF "tags" \notin DOMAIN f2 THEN withKey(f2, "tags", ArrV(<<>>)) ELSE f2
    IN  IF "abstract" \notin DOMAIN f3 THEN withKey(f3, "abstract", StrV(<<>>)) ELSE f3

\* mutant of deriveFields: the slug is always derived from the title
deriveFields_SlugAlways(fm, cfg, now) ==
    LET f1 == withKey(fm, "slug", StrV(slugify(fm["title"].v)))
        f2 == IF "date" \notin DOMAIN f1
              THEN withKey(f1, "date", StrV(timeFormat(now, loadLocation(cfg.Timezone))))
              ELSE f1
        f3 == IF "tags" \notin DOMAIN f2 THEN withKey(f2, "tags", ArrV(<<>>)) ELSE f2
    IN  IF "abstract" \notin DOMAIN f3 THEN withKey(f3, "abstract", StrV(<<>>)) ELSE f3

\* slug, date, tags and abstract set when absent
deriveFields(fm, cfg, now) ==
    LET f1 == IF "slug" \notin DOMAIN fm THEN withKey(fm, "slug", StrV(slugify(fm["title"].v))) ELSE fm
        f2 == IF "date" \notin DOMAIN f1
              THEN withKey(f1, "date", StrV(timeFormat(now, loadLocation(cfg.Timezone))))
              ELSE f1
        f3 == IF "tags" \notin DOMAIN f2 THEN withKey(f2, "tags", ArrV(<<>>)) ELSE f2
    IN  IF "abstract" \notin DOMAIN f3 THEN withKey(f3, "abstract", StrV(<<>>)) ELSE f3

\* the keys of frontMatter when validateFrontMatter ranges over it
frontMatterKeys(input, gc) ==
    DOMAIN buildFrontMatter(effectiveConfig(input, gc), input.Meta)
        \cup {"slug", "date", "tags", "abstract"}

\* the orders in which validateFrontMatter may range over frontMatter, one for
\* each order of the keys outside the required set
formatOrders(input, gc) ==
    rangeOrdersModulo(frontMatterKeys(input, gc), Range(effectiveConfig(input, gc).Required))

\* the abstract wrapped when it is a non-empty string
wrapAbstract(fm, width) ==
    IF fm["abstract"].t = "str" /\ fm["abstract"].v # <<>>
    THEN withKey(fm, "abstract", StrV(wrapText(fm["abstract"].v, width)))
    ELSE fm

\* the YAML block: one (key, value) entry for each key of the map, in the
\* sorted key order of the encoder
yamlEncode(fm) ==
    LET ks == SelectSeq(SortedKeys, LAMBDA k : k \in DOMAIN fm)
    IN  [i \in 1..Len(ks) |-> <<ks[i], fm[ks[i]]>>]

\* fmt.Sprintf("---\n%s---\n\n%s\n", yaml, strings.TrimRight(body, "\n")):
\* open, the YAML block, then rest
assemble(yaml, body) ==
    [open |-> <<"-", "-", "-", "\n">>,
     yaml |-> yaml,
     rest |-> <<"-", "-", "-", "\n", "\n">> \o TrimRight(body, {"\n"}) \o <<"\n">>]

\* mutant of strictMode: strict only when the strategy is "strict"
strictMode_OnlyStrict(input) == input.Strategy = "strict"

\* the strict argument of the validateFrontMatter call
strictMode(input) == input.Strategy # "lenient"

\* FormatContent(input, globalConfig) at the instant now, validateFrontMatter
\* ranging over the front matter in the given order.  kind is "ok" (a
\* FormatOutput), "error" (an error value) or "panic" (a failed type assertion).
FormatContent(input, gc, order, now) ==
    LET cfg == effectiveConfig(input, gc)
        fm0 == buildFrontMatter(cfg, input.Meta)
    IN  IF ~titleOK(fm0)
        THEN [kind |-> "error", err |-> ErrorNew("title is required")]
        ELSE LET fm1 == deriveFields(fm0, cfg, now)
                 v == validateFrontMatter(fm1, cfg, strictMode(input), order)
             IN  IF v.err # Nil
                 THEN [kind |-> "error", err |-> v.err]
                 ELSE LET fm == wrapAbstract(fm1, cfg.WrapAt)
                          body == wrapText(input.Raw, cfg.WrapAt)
                          markdown == assemble(yamlEncode(fm), body)
                      IN  IF fm["date"].t # "str" \/ fm["slug"].t # "str"
                          THEN [kind |-> "panic"]
                          ELSE LET relativePath == computePath(cfg.PathPattern, fm["date"].v, fm["slug"].v)
                               IN  [kind |-> "ok",
                                    Path |-> IF cfg.RootPath # <<>>
                                             THEN pathJoin(cfg.RootPath, relativePath)
                                             ELSE relativePath,
                                    Markdown |-> markdown,
                                    Warnings |-> v.warnings]

(***************************************************************************)
(* SpecFormat: FormatContent applied to bounded inputs and configurations  *)
(***************************************************************************)
TitleMyPost == StrV(<<"M", "y", " ", "P", "o", "s", "t">>)
Extra == BoolV(TRUE)
ExplicitDate == StrV(FullDate)

\* map literals
Map1(k1, v1) == [k \in {k1} |-> v1]
Map2(k1, v1, k2, v2) == withKey(Map1(k1, v1), k2, v2)
Map3(k1, v1, k2, v2, k3, v3) == withKey(Map2(k1, v1, k2, v2), k3, v3)

Metas ==
    { Nil,
      Map1("title", TitleMyPost),
      Map1("title", StrV(<<" ", "\t">>)),
      Map1("title", BoolV(TRUE)),
      Map1("title", ArrV(<<<<"a">>>>)),
      Map1("lang", StrV(<<"e", "l">>)),
      Map2("title", TitleMyPost, "date", ExplicitDate),
      Map2("title", TitleMyPost, "date", StrV(NotADate)),
      Map2("title", TitleMyPost, "date", BoolV(FALSE)),
      Map2("title", TitleMyPost, "slug", ArrV(<<<<"a">>, <<"b">>>>)),
      Map2("title", TitleMyPost, "slug", StrV(<<"s">>)),
      Map3("title", TitleMyPost, "tags", ArrV(<<<<"a">>>>), "abstract", StrV(<<"o", "n", "e", " ", "t", "w", "o", " ", "t", "h", "r", "e", "e", " ", "f", "o", "u", "r", " ", "f", "i", "v", "e">>)) }

Raws == { <<"h", "e", "l", "l", "o", " ", "w", "o", "r", "l", "d">>, <<>>, <<"\n", "a", "a", "a", "a", " ", "b", "b", "b", "b", " ", " ", "c", "c", "c", "c", " ", "d", "d", "d", "d", " ", "e", "e", "e", "e", "\n", "\n", "\n">> }

LangFr == Map1("lang", StrV(<<"f", "r">>))

\* inline configuration overrides
Inlines ==
    { TomlBad,
      TomlMistyped([k \in {} |-> Nil]),
      TomlMistyped(Map1("timezone", "Asia/Tokyo")),
      TomlDoc(Map1("wrap_at", 20)),
      TomlDoc(Map1("required", <<"title", "slug", "date", "tags">>)),
      TomlDoc(Map1("required", <<"title", "slug", "date", "tags", "abstract", "lang", "extra">>)),
      TomlDoc(Map1("defaults", LangFr)),
      TomlDoc(Map2("defaults", Map1("title", StrV(<<"D">>)), "path_pattern", <<"{", "s", "l", "u", "g", "}", ".", "m", "d">>)) }

FormatInputs ==
    [Raw : {<<"h", "e", "l", "l", "o", " ", "w", "o", "r", "l", "d">>}, Meta : Metas, Config : {TomlEmpty}, Strategy : {"", "lenient"}]
    \cup [Raw : Raws, Meta : {Map1("title", TitleMyPost)}, Config : Inlines, Strategy : {"lenient"}]
    \cup [Raw : {<<>>}, Meta : {Map2("title", TitleMyPost, "extra", Extra)},
          Config : {TomlEmpty}, Strategy : {"strict", "loose", "lenient"}]

\* a configuration loaded from a file that sets two keys
ConfigFromFile == [ZeroConfig EXCEPT !.Timezone = "Asia/Tokyo", !.Required = <<"title", "slug", "date">>]

\* a configuration after setup whose required list leaves out the title
ConfigNoTitle ==
    [RootPath |-> <<"/", "r">>, Timezone |-> "Mars/Base", PathPattern |-> <<"{", "y", "y", "y", "y", "}", "/", "{", "s", "l", "u", "g", "}", ".", "m", "d">>,
     Required |-> <<"slug", "date", "tags", "abstract">>, Defaults |-> Nil, WrapAt |-> 20]

\* a configuration whose defaults hold a blank title
ConfigBlankTitle ==
    [GetDefaultConfig EXCEPT !.Required = <<"lang", "slug", "tags", "abstract">>,
                             !.Defaults = Map2("lang", StrV(<<"e", "n">>), "title", StrV(<<" ">>))]

FormatConfigs == { Nil, GetDefaultConfig, ConfigFromFile, ConfigNoTitle, ConfigBlankTitle }

InitFormat ==
    /\ pc = "call"
    /\ args \in [input : FormatInputs, config : FormatConfigs]
    /\ ret = None
    /\ globalConfig = Nil
    /\ configFile = NoFile
    /\ NoIO

CallFormatContent ==
    /\ pc = "call"
    /\ \E now \in Instants, order \in formatOrders(args.input, args.config) :
          ret' = FormatContent(args.input, args.config, order, now)
    /\ pc' = "done"
    /\ UNCHANGED <<args, globalConfig, configFile, io>>

NextFormat == CallFormatContent

SpecFormat == InitFormat /\ [][NextFormat]_vars

\* the title after overlaying the request metadata on the defaults of the
\* effective configuration is a string with a character that is not a space
TitleUsable ==
    LET meta == mapOf(args.input.Meta)
        defaults == mapOf(effectiveConfig(args.input, args.config).Defaults)
        holder == IF "title" \in DOMAIN meta THEN meta ELSE defaults
    IN  /\ "title" \in DOMAIN holder
        /\ holder["title"].t = "str"
        /\ \E i \in DOMAIN holder["title"].v : holder["title"].v[i] \notin Space

\* C6: for metadata values that are strings, string arrays or booleans, and
\* every configuration, FormatContent returns a FormatOutput or an error
\* value and never panics.
C6_NeverPanics ==
    pc = "done" => ret.kind \in {"ok", "error"}

\* C10: FormatContent fails with "title is required" whenever the title is
\* absent, not a string or blank after the overlay, in either mode, also when
\* title is not a required field, and before any other validation failure.
C10_TitleRequired ==
    (pc = "done" /\ ~TitleUsable) => ret = [kind |-> "error", err |-> ErrorNew("title is required")]

\* C10 witness: a blank title from the defaults, title outside the required
\* list, strict mode (the blank title would otherwise be an unknown field).
C10_Witness ==
    /\ pc = "done"
    /\ args.config = ConfigBlankTitle
    /\ args.input.Strategy = ""
    /\ args.input.Meta = Map1("lang", StrV(<<"e", "l">>))
    /\ ret.kind = "error"
    /\ ret.err.msg = "title is required"

(***************************************************************************)
(* SpecTwice: FormatContent called twice with the same input and the same  *)
(* configuration value; ret is the sequence of the two results             *)
(***************************************************************************)
TwiceInputs ==
    [Raw : {<<"h", "i">>},
     Meta : { Map1("title", TitleMyPost),
              Map1("title", BoolV(TRUE)),
              Map2("title", TitleMyPost, "date", ExplicitDate),
              Map2("date", ExplicitDate, "extra", Extra),
              Map3("title", TitleMyPost, "date", BoolV(TRUE), "extra", Extra),
              Map3("title", TitleMyPost, "date", ExplicitDate, "extra", Extra) },
     Config : {TomlEmpty, TomlDoc(Map1("required", <<"title", "slug", "date", "tags">>))},
     Strategy : {"", "lenient"}]

TwiceConfigs == { GetDefaultConfig, ConfigFromFile, ConfigNoTitle }

InitTwice ==
    /\ pc = "call"
    /\ args \in [input : TwiceInputs, config : TwiceConfigs]
    /\ ret = <<>>
    /\ globalConfig = Nil
    /\ configFile = NoFile
    /\ NoIO

CallFormatContentAgain ==
    /\ pc = "call"
    /\ \E now \in Instants, order \in formatOrders(args.input, args.config) :
          ret' = Append(ret, FormatContent(args.input, args.config, order, now))
    /\ pc' = IF Len(ret) = 1 THEN "done" ELSE "call"
    /\ UNCHANGED <<args, globalConfig, configFile, io>>

NextTwice == CallFormatContentAgain

SpecTwice == InitTwice /\ [][NextTwice]_vars

\* the request metadata supplies the date
DateSupplied == "date" \in DOMAIN mapOf(args.input.Meta)

\* the keys of the front matter outside the required set of the effective configuration
TwiceUnknownKeys ==
    frontMatterKeys(args.input, args.config) \ Range(effectiveConfig(args.input, args.config).Required)

ConfigFiles ==
    { NoHome,
      NoFile,
      TomlBad,
      tomlEncode(GetDefaultConfig),
      TomlDoc(Map3("root_path", <<"/", "r">>, "timezone", "Asia/Tokyo",
                   "required", <<"title", "slug", "date", "tags">>)),
      TomlDoc(Map3("timezone", "UTC", "required", <<"title", "slug", "date", "tags", "abstract">>,
                   "defaults", LangFr)) }

\* the arguments of the bckt / bckt_preview calls the process handles
ServerInputs ==
    { [Raw |-> <<"h", "e", "l", "l", "o", " ", "w", "o", "r", "l", "d">>, Meta |-> Map1("title", TitleMyPost), Config |-> TomlEmpty, Strategy |-> ""],
      [Raw |-> <<"h", "e", "l", "l", "o", " ", "w", "o", "r", "l", "d">>, Meta |-> Map1("title", TitleMyPost), Config |-> TomlBad, Strategy |-> "strict"],
      [Raw |-> <<"h", "e", "l", "l", "o", " ", "w", "o", "r", "l", "d">>, Meta |-> Map1("title", TitleMyPost),
       Config |-> TomlDoc(Map2("defaults", Map1("lang", StrV(<<"e", "l">>)), "wrap_at", 20)), Strategy |-> "lenient"],
      [Raw |-> <<>>, Meta |-> Map2("title", TitleMyPost, "lang", StrV(<<"e", "n">>)),
       Config |-> TomlDoc(Map1("required", <<"slug", "title", "date", "tags", "abstract">>)), Strategy |-> "lenient"],
      [Raw |-> <<>>, Meta |-> Map2("title", TitleMyPost, "date", BoolV(TRUE)),
       Config |-> TomlDoc(Map1("path_pattern", <<"{", "s", "l", "u", "g", "}", ".", "m", "d">>)), Strategy |-> "lenient"] }

Init ==
    /\ pc = "start"
    /\ args = None
    /\ ret = None
    /\ globalConfig = Nil
    /\ configFile \in ConfigFiles
    /\ NoIO

\* main: "globalConfig = LoadGlobalConfig()" before the request loop
LoadConfig ==
    /\ pc = "start"
    /\ globalConfig' = LoadGlobalConfig(configFile)
    /\ \E saved \in BOOLEAN : configFile' = LoadGlobalConfigFile(configFile, saved)
    /\ pc' = "serving"
    /\ UNCHANGED <<args, ret, io>>

\* HandleBcktFormat after FormatContent returned: the response
formatResponse(out, previewMode) ==
    IF out.kind = "error"
    THEN [kind |-> "error", code |-> 1, message |-> out.err]
    ELSE [kind |-> "result",
          content |-> (IF Len(out.Warnings) > 0 THEN <<[warnings |-> out.Warnings]>> ELSE <<>>)
                      \o (IF previewMode THEN <<[text |-> "PREVIEW MODE - Not saved"]>> ELSE <<>>)
                      \o <<[path |-> out.Path], [markdown |-> out.Markdown]>>]

\* HandleBcktFormat (tools bckt and bckt_preview).  args keeps the call: the
\* tool, the decoded input and *globalConfig as it was when the call began.
\* A panic in FormatContent ends the process.
HandleBcktFormat ==
    /\ pc = "serving"
    /\ \E tool \in {"bckt", "bckt_preview"} :
          \/ /\ args' = [tool |-> tool, input |-> None, config |-> globalConfig]
             /\ ret' = [kind |-> "error", code |-> -32602, message |-> ErrorNew("Invalid arguments")]
             /\ UNCHANGED <<pc, globalConfig>>
          \/ \E input \in ServerInputs, now \in Instants :
               \E order \in formatOrders(input, globalConfig) :
                  LET out == FormatContent(input, globalConfig, order, now)
                  IN  /\ args' = [tool |-> tool, input |-> input, config |-> globalConfig]
                      /\ globalConfig' = configAfterFormat(input, globalConfig)
                      /\ ret' = IF out.kind = "panic" THEN out ELSE formatResponse(out, tool = "bckt_preview")
                      /\ pc' = IF out.kind = "panic" THEN "crashed" ELSE "serving"
    /\ UNCHANGED <<configFile, io>>

Next == LoadConfig \/ HandleBcktFormat

Spec == Init /\ [][Next]_vars

\* the last call handled was a bckt or bckt_preview call that reached FormatContent
FormatCalled == args # None /\ args.tool \in {"bckt", "bckt_preview"} /\ args.input # None

\* the field of a Config that a key of the TOML document sets
fieldOf(cfg, key) ==
    CASE key = "root_path" -> cfg.RootPath
      [] key = "timezone" -> cfg.Timezone
      [] key = "path_pattern" -> cfg.PathPattern
      [] key = "required" -> cfg.Required
      [] key = "defaults" -> cfg.Defaults
      [] key = "wrap_at" -> cfg.WrapAt

TomlKeys == {"root_path", "timezone", "path_pattern", "required", "defaults", "wrap_at"}

\* C3: FormatContent does not modify the configuration it is given: after any
\* call, also one whose inline override sets front_matter.defaults or
\* front_matter.required, the caller's Config equals its value before the call.
C3_ConfigUnchanged ==
    FormatCalled => globalConfig = args.config

\* C4: the effective configuration of a request is layered field by field:
\* a field that neither the inline override nor the persisted configuration
\* sets has its built-in default value, a field only the persisted
\* configuration sets has the persisted value, a field the inline override
\* sets (other than the merged defaults mapping) has the inline value.
C4_LayeredFieldByField ==
    FormatCalled =>
        LET e == effectiveConfig(args.input, args.config)
            inline == IF args.input.Config.ok THEN args.input.Config.set ELSE [k \in {} |-> Nil]
            file == IF configFile.ok THEN configFile.set ELSE [k \in {} |-> Nil]
        IN  \A key \in TomlKeys :
                IF key \in DOMAIN inline
                THEN key # "defaults" => fieldOf(e, key) = inline[key]
                ELSE IF key \in DOMAIN file
                     THEN fieldOf(e, key) = file[key]
                     ELSE fieldOf(e, key) = fieldOf(GetDefaultConfig, key)

(***************************************************************************)
(* FormatContent, continued: the front matter of a successful call         *)
(***************************************************************************)
\* the front matter the YAML block of the returned markdown holds
frontMatterOf(out) ==
    LET y == out.Markdown.yaml
    IN  [k \in { y[i][1] : i \in DOMAIN y } |-> y[CHOOSE i \in DOMAIN y : y[i][1] = k][2]]

\* the call has returned a FormatOutput
FormatOK == pc = "done" /\ ret.kind = "ok"

\* the request metadata and the defaults of the effective configuration
MetaGiven == mapOf(args.input.Meta)
DefaultsGiven == mapOf(effectiveConfig(args.input, args.config).Defaults)

\* the value the metadata or, failing that, the defaults supply for a key
Supplied(k) == IF k \in DOMAIN MetaGiven THEN MetaGiven[k] ELSE DefaultsGiven[k]
IsSupplied(k) == k \in DOMAIN MetaGiven \cup DOMAIN DefaultsGiven

\* the supplied value as the front matter shows it: a non-empty string
\* abstract has gone through wrapText at the effective width, every other
\* value is shown as supplied
ShownAs(k, v) ==
    IF k = "abstract" /\ v.t = "str"
    THEN StrV(wrapText(v.v, effectiveConfig(args.input, args.config).WrapAt))
    ELSE v

Shown(k) == ShownAs(k, Supplied(k))

\* C11: in a successful FormatContent call the front matter contains slug,
\* date, tags and abstract; a key absent after the overlay gets its derived
\* value (slug = slugify(title), tags = empty sequence, abstract = empty
\* string), a key supplied by the metadata or the defaults keeps the supplied
\* value (the abstract then being wrapped by the later wrapping step).
C11_DerivedWhenAbsent ==
    FormatOK =>
        LET fm == frontMatterOf(ret)
        IN  /\ {"slug", "date", "tags", "abstract"} \subseteq DOMAIN fm
            /\ \A k \in {"slug", "date", "tags", "abstract"} : IsSupplied(k) => fm[k] = Shown(k)
            /\ ~IsSupplied("slug") => fm["slug"] = StrV(slugify(Supplied("title").v))
            /\ ~IsSupplied("tags") => fm["tags"] = ArrV(<<>>)
            /\ ~IsSupplied("abstract") => fm["abstract"] = StrV(<<>>)
            /\ ~IsSupplied("date") => fm["date"].t = "str"

\* C11 witness: a successful call whose metadata supplies the slug "s" and
\* no tags: the slug is kept, the tags are derived.
C11_Witness ==
    /\ FormatOK
    /\ args.input.Meta = Map2("title", TitleMyPost, "slug", StrV(<<"s">>))
    /\ frontMatterOf(ret)["slug"] = StrV(<<"s">>)
    /\ frontMatterOf(ret)["tags"] = ArrV(<<>>)
    /\ slugify(TitleMyPost.v) = <<"m", "y", "-", "p", "o", "s", "t">>

\* C12: the front matter holds, for every key of the request metadata, the
\* metadata value (also when the defaults define the same key), and for every
\* key only the defaults define, the default value.
C12_MetadataWins ==
    FormatOK =>
        LET fm == frontMatterOf(ret)
        IN  /\ \A k \in DOMAIN MetaGiven : k \in DOMAIN fm /\ fm[k] = ShownAs(k, MetaGiven[k])
            /\ \A k \in DOMAIN DefaultsGiven \ DOMAIN MetaGiven :
                    k \in DOMAIN fm /\ fm[k] = ShownAs(k, DefaultsGiven[k])

\* C12 witness: the defaults hold a title and a lang, the metadata a title
\* only: the front matter shows the title of the metadata and the default lang.
C12_Witness ==
    /\ FormatOK
    /\ args.config = ConfigBlankTitle
    /\ args.input.Meta = Map1("title", TitleMyPost)
    /\ DefaultsGiven["title"] # TitleMyPost
    /\ frontMatterOf(ret)["title"] = TitleMyPost
    /\ frontMatterOf(ret)["lang"] = StrV(<<"e", "n">>)

\* every required field of the effective configuration is in the front matter
FormatRequiredPresent ==
    Range(effectiveConfig(args.input, args.config).Required) \subseteq frontMatterKeys(args.input, args.config)

\* C13: unless the strategy is exactly "lenient" (absent, "strict" or any
\* other value) the validation is strict: an unknown field fails the call,
\* and every successful call returns an empty warnings sequence.
C13_StrictUnlessLenient ==
    (pc = "done" /\ args.input.Strategy # "lenient") =>
        /\ ret.kind = "ok" => (ret.Warnings = <<>> /\ TwiceUnknownKeys = {})
        /\ (TitleUsable /\ FormatRequiredPresent /\ TwiceUnknownKeys # {}) =>
                (ret.kind = "error" /\ ret.err.msg = "unknown field in strict mode")

\* C13 witness: the strategy "loose" with an unknown field fails as in strict mode.
C13_Witness ==
    /\ pc = "done"
    /\ args.input.Strategy = "loose"
    /\ args.config = GetDefaultConfig
    /\ "extra" \in TwiceUnknownKeys
    /\ ret.kind = "error"
    /\ ret.err = Errorf("unknown field in strict mode", "extra")

(***************************************************************************)
(* computePath, continued: the substitution                                *)
(***************************************************************************)
\* the pattern read once from left to right, every occurrence of a
\* placeholder replaced by its value and every other character copied
RECURSIVE Substituted(_, _, _, _, _)
Substituted(pattern, yyyy, mm, dd, slug) ==
    LET starts(ph) == Len(pattern) >= Len(ph) /\ SubSeq(pattern, 1, Len(ph)) = ph
        after(ph) == Substituted(SubSeq(pattern, Len(ph) + 1, Len(pattern)), yyyy, mm, dd, slug)
    IN  IF pattern = <<>> THEN <<>>
        ELSE IF starts(PhYear) THEN yyyy \o after(PhYear)
        ELSE IF starts(PhMonth) THEN mm \o after(PhMonth)
        ELSE IF starts(PhDay) THEN dd \o after(PhDay)
        ELSE IF starts(PhSlug) THEN slug \o after(PhSlug)
        ELSE <<pattern[1]>> \o Substituted(Tail(pattern), yyyy, mm, dd, slug)

\* the first 10 characters of the date split into exactly three components
ThreeParts == Len(Split(datePart(args.date), "-")) = 3

\* C14: when the date prefix splits into three components, the path is the
\* pattern with every occurrence of {yyyy}, {MM}, {DD} and {slug} replaced by
\* the year, month, day and slug, every other text left untouched, and only
\* the first 10 characters of the date used.
C14_PlaceholdersReplaced ==
    (pc = "done" /\ ThreeParts) =>
        LET parts == Split(SubSeq(args.date, 1, IF Len(args.date) < 10 THEN Len(args.date) ELSE 10), "-")
        IN  ret.path = Substituted(args.pattern, parts[1], parts[2], parts[3], args.slug)

(***************************************************************************)
(* SpecSlug: slugify applied to bounded titles, and to its own result      *)
(***************************************************************************)
TitleChars == {"a", "Z", "7", "-", " ", "_"}

\* every string over TitleChars of at most MaxTitleLen characters
Titles == UNION { [1..n -> TitleChars] : n \in 0..MaxTitleLen }

InitSlug ==
    /\ pc = "call"
    /\ args \in [title : Titles]
    /\ ret = None
    /\ globalConfig = Nil
    /\ configFile = NoFile
    /\ NoIO

CallSlugify ==
    /\ pc = "call"
    /\ pc' = "done"
    /\ ret' = [kind |-> "slug", slug |-> slugify(args.title), again |-> slugify(slugify(args.title))]
    /\ UNCHANGED <<args, globalConfig, configFile, io>>

NextSlug == CallSlugify

SpecSlug == InitSlug /\ [][NextSlug]_vars

\* C15: slugify(title) contains only a-z, 0-9 and '-', never two adjacent
\* hyphens, never a leading or trailing hyphen (it may be empty), and
\* slugify(slugify(title)) = slugify(title).
C15_SlugShape ==
    pc = "done" =>
        LET g == ret.slug
        IN  /\ \A i \in DOMAIN g : g[i] \in SlugChars \cup {"-"}
            /\ \A i \in 1..(Len(g) - 1) : ~(g[i] = "-" /\ g[i + 1] = "-")
            /\ g # <<>> => (g[1] # "-" /\ g[Len(g)] # "-")
            /\ ret.again = g

\* C15 witness: an upper-case letter, a run of two characters outside
\* [a-z0-9], a digit: the run has become one hyphen.
C15_Witness ==
    /\ pc = "done"
    /\ args.title = <<"Z", " ", "-", "7">>
    /\ ret.slug = <<"z", "-", "7">>
    /\ ret.again = ret.slug

(***************************************************************************)
(* SpecWrap: wrapText applied to bounded texts and widths                  *)
(***************************************************************************)
\* n copies of the character c
Repeat(c, n) == [i \in 1..n |-> c]

\* the pieces texts are made of: a word followed by a space, a word longer
\* than the widths, a short word, a space, a line break, a run of spaces
\* longer than the widths
Pieces ==
    { Repeat("a", 8) \o <<" ">>, Repeat("b", 22), <<"c", "c">>, <<" ">>, <<"\n">>, Repeat(" ", 26) }

\* the concatenations of at most n pieces
RECURSIVE TextsOf(_)
TextsOf(n) ==
    IF n = 0 THEN { <<>> } ELSE LET t == TextsOf(n - 1) IN t \cup { x \o q : x \in t, q \in Pieces }

Widths == {-1, 0, 19, 20, 25}

InitWrap ==
    /\ pc = "call"
    /\ args \in [text : TextsOf(MaxPieces), width : Widths]
    /\ ret = None
    /\ globalConfig = Nil
    /\ configFile = NoFile
    /\ NoIO

CallWrapText ==
    /\ pc = "call"
    /\ pc' = "done"
    /\ ret' = [kind |-> "text", text |-> wrapText(args.text, args.width)]
    /\ UNCHANGED <<args, globalConfig, configFile, io>>

NextWrap == CallWrapText

SpecWrap == InitWrap /\ [][NextWrap]_vars

\* the lines of the text wrapText has returned
OutLines == Split(ret.text, "\n")

\* the line is one word: it has no white space inside
SingleWord(line) == \A i \in DOMAIN line : line[i] \notin Space

\* C16: for width >= 20 every line of wrapText(text, width) has length <=
\* width, unless it is a single word longer than width, alone on its line.
C16_LinesFit ==
    (pc = "done" /\ args.width >= 20) =>
        \A i \in DOMAIN OutLines : Len(OutLines[i]) <= args.width \/ SingleWord(OutLines[i])

\* C16 witness: a line of two words of 8 characters and a word of 22
\* characters, wrapped at 20: the two words share a line of 17 characters,
\* the long word stands alone on the next.
C16_Witness ==
    /\ pc = "done"
    /\ args.width = 20
    /\ args.text = Repeat("a", 8) \o <<" ">> \o Repeat("a", 8) \o <<" ">> \o Repeat("b", 22)
    /\ OutLines = << Repeat("a", 8) \o <<" ">> \o Repeat("a", 8), Repeat("b", 22) >>

\* C17: for every width < 20, zero and negative widths included,
\* wrapText(text, width) is the text.
C17_NarrowIdentity ==
    (pc = "done" /\ args.width < 20) => ret.text = args.text

\* C17 witness: width 19 and a line of 27 characters, which comes back as it is.
C17_Witness ==
    /\ pc = "done"
    /\ args.width = 19
    /\ args.text = Repeat("a", 8) \o <<" ">> \o Repeat("a", 8) \o <<" ">> \o Repeat("a", 8) \o <<" ">>
    /\ ret.text = args.text

\* the lines of the text given to wrapText
SourceLines == Split(args.text, "\n")

\* the output lines fall into consecutive groups, one for each source line in
\* order and each of at least `least` lines, such that the words of a group
\* are the words of its source line, and the group of a source line of at
\* most width characters is that line itself
RECURSIVE LinesMatch(_, _, _, _)
LinesMatch(src, out, width, least) ==
    IF src = <<>>
    THEN out = <<>>
    ELSE \E k \in least..Len(out) :
            /\ Fields(Join(SubSeq(out, 1, k), <<"\n">>)) = Fields(src[1])
            /\ Len(src[1]) <= width => (k = 1 /\ out[1] = src[1])
            /\ LinesMatch(Tail(src), SubSeq(out, k + 1, Len(out)), width, least)

\* C18: for width >= 20 wrapText keeps every source line of length <= width
\* unchanged, the sequence of words of the output is that of the input, and
\* no output line holds words of two different source lines.
C18_WordsKept ==
    (pc = "done" /\ args.width >= 20) =>
        /\ Fields(ret.text) = Fields(args.text)
        /\ LinesMatch(SourceLines, OutLines, args.width, 0)

\* C18 witness: a line holding one space, then a line of 31 characters in two
\* words: the first comes back as it is, the second as two lines.
C18_Witness ==
    /\ pc = "done"
    /\ args.width = 20
    /\ args.text = <<" ", "\n">> \o Repeat("a", 8) \o <<" ">> \o Repeat("b", 22)
    /\ OutLines = << <<" ">>, Repeat("a", 8), Repeat("b", 22) >>

\* C19: for width >= 20 every source line, a blank or white-space-only one of
\* any length included, yields at least one output line: the output has no
\* fewer lines than the input and the words of two source lines separated by
\* such a line stay separated by it.
C19_LineBreaksKept ==
    (pc = "done" /\ args.width >= 20) =>
        /\ Len(OutLines) >= Len(SourceLines)
        /\ LinesMatch(SourceLines, OutLines, args.width, 1)

(***************************************************************************)
(* FormatContent, continued: the assembled markdown                        *)
(***************************************************************************)
\* the closing delimiter line
Delimiter == <<"-", "-", "-", "\n">>

\* the markdown after the YAML block and the closing delimiter line
AfterDelimiter == SubSeq(ret.Markdown.rest, Len(Delimiter) + 1, Len(ret.Markdown.rest))

\* C20: the markdown of a successful call is the line "---", the serialized
\* front matter, the line "---", exactly one blank line, the wrapped body and
\* exactly one trailing newline: for every raw body exactly one blank line
\* follows the closing delimiter and the document ends with a single newline.
C20_MarkdownLayout ==
    FormatOK =>
        LET md == ret.Markdown
            after == AfterDelimiter
            n == Len(after)
        IN  /\ md.open = Delimiter
            /\ md.yaml # <<>>
            /\ SubSeq(md.rest, 1, Len(Delimiter)) = Delimiter
            /\ n >= 1 /\ after[1] = "\n"
            /\ n >= 2 => after[2] # "\n"
            /\ after[n] = "\n"
            /\ n >= 2 => after[n - 1] # "\n"

(***************************************************************************)
(* FormatContent, continued: an inline override that fails to decode       *)
(***************************************************************************)
\* the request carries an inline override and toml.Unmarshal returns an error
OverrideFailed == args.input.Config # TomlEmpty /\ ~args.input.Config.ok

\* the results of the same call without any inline override
WithoutOverride ==
    LET input == [args.input EXCEPT !.Config = TomlEmpty]
    IN  { FormatContent(input, args.config, order, now) :
              order \in formatOrders(input, args.config), now \in Instants }

\* C21: when the inline override cannot be parsed or decoded, the effective
\* configuration is exactly the pre-override configuration and the result is
\* a result of the same call without any inline override.
C21_FailedOverrideIgnored ==
    (pc = "done" /\ OverrideFailed) =>
        /\ effectiveConfig(args.input, args.config) = startConfig(args.config)
        /\ ret \in WithoutOverride

(***************************************************************************)
(* FormatContent, continued: the derived date                              *)
(***************************************************************************)
\* the time zone names time.LoadLocation resolves
KnownZones == {"UTC", "", "Asia/Tokyo"}

\* the string starts with a 10-character yyyy-MM-dd prefix
DatePrefixed(d) ==
    /\ Len(d) >= 10
    /\ \A i \in {1, 2, 3, 4, 6, 7, 9, 10} : d[i] \in Digits
    /\ d[5] = "-" /\ d[8] = "-"

\* C22: when the date is absent from the front matter the call never fails
\* because of the configured timezone: it fails only for the title or in
\* validateFrontMatter (or panics on a slug that is not a string); when it
\* succeeds the date is a string with a yyyy-MM-dd prefix, rendered in UTC
\* when the timezone does not resolve, and the path is the pattern with the
\* placeholders substituted from that date.
C22_DateDerived ==
    (pc = "done" /\ ~IsSupplied("date")) =>
        LET cfg == effectiveConfig(args.input, args.config)
        IN  /\ ret.kind = "error" =>
                  ret.err.msg \in {"title is required", "missing required field", "unknown field in strict mode"}
            /\ ret.kind = "panic" => (IsSupplied("slug") /\ Supplied("slug").t # "str")
            /\ ret.kind = "ok" =>
                  LET d == frontMatterOf(ret)["date"]
                      rel == Substituted(cfg.PathPattern, SubSeq(d.v, 1, 4), SubSeq(d.v, 6, 7),
                                         SubSeq(d.v, 9, 10), frontMatterOf(ret)["slug"].v)
                  IN  /\ d.t = "str"
                      /\ DatePrefixed(d.v)
                      /\ cfg.Timezone \notin KnownZones => \E now \in Instants : d.v = timeFormat(now, "UTC")
                      /\ ret.Path = IF cfg.RootPath # <<>> THEN pathJoin(cfg.RootPath, rel) ELSE rel

\* C22 witness: the timezone "Mars/Base" does not resolve, the metadata hold
\* no date: the call succeeds with a date rendered in UTC and a path built
\* from it.
C22_Witness ==
    /\ FormatOK
    /\ args.config = ConfigNoTitle
    /\ args.input.Meta = Map1("title", TitleMyPost)
    /\ frontMatterOf(ret)["date"] = StrV(timeFormat("i1", "UTC"))
    /\ ret.Path = <<"/", "r", "/", "2", "0", "2", "5", "/", "m", "y", "-", "p", "o", "s", "t", ".", "m", "d">>

(***************************************************************************)
(* FormatContent, continued: the end-to-end example                        *)
(***************************************************************************)
\* raw "hello world", metadata {title: "My Post"}, no inline override, no
\* strategy, and the built-in default configuration (given, or used because
\* no configuration was loaded)
ExampleCall ==
    /\ args.input = [Raw |-> <<"h", "e", "l", "l", "o", " ", "w", "o", "r", "l", "d">>,
                     Meta |-> Map1("title", TitleMyPost), Config |-> TomlEmpty, Strategy |-> ""]
    /\ args.config \in {Nil, GetDefaultConfig}

MyPost == <<"m", "y", "-", "p", "o", "s", "t">>

\* C23: the example call succeeds with no warnings; the front matter keys are
\* exactly title, slug, date, tags, abstract, lang, with slug "my-post", tags
\* empty, abstract "" and lang "en"; the path is
\* posts/<yyyy>/<yyyy>-<MM>-<DD>-my-post/my-post.md for the derived date.
C23_EndToEnd ==
    (pc = "done" /\ ExampleCall) =>
        /\ ret.kind = "ok"
        /\ ret.Warnings = <<>>
        /\ LET fm == frontMatterOf(ret)
               d == fm["date"].v
           IN  /\ DOMAIN fm = {"title", "slug", "date", "tags", "abstract", "lang"}
               /\ fm["title"] = TitleMyPost
               /\ fm["slug"] = StrV(MyPost)
               /\ fm["tags"] = ArrV(<<>>)
               /\ fm["abstract"] = StrV(<<>>)
               /\ fm["lang"] = StrV(<<"e", "n">>)
               /\ \E now \in Instants : d = timeFormat(now, "UTC")
               /\ ret.Path = <<"p", "o", "s", "t", "s", "/">> \o SubSeq(d, 1, 4) \o <<"/">> \o SubSeq(d, 1, 10)
                                \o <<"-">> \o MyPost \o <<"/">> \o MyPost \o <<".", "m", "d">>
        /\ ret.Markdown.rest = Delimiter \o <<"\n">> \o args.input.Raw \o <<"\n">>

\* C23 witness: the example call at the first instant.
C23_Witness ==
    /\ pc = "done"
    /\ ExampleCall
    /\ args.config = GetDefaultConfig
    /\ ret.kind = "ok"
    /\ ret.Path = <<"p", "o", "s", "t", "s", "/", "2", "0", "2", "5", "/", "2", "0", "2", "5", "-", "1", "0", "-", "0", "7", "-",
                    "m", "y", "-", "p", "o", "s", "t", "/", "m", "y", "-", "p", "o", "s", "t", ".", "m", "d">>

(***************************************************************************)
(* The tools that read and write the configuration: bckt_save, bckt_setup, *)
(* bckt_config                                                             *)
(***************************************************************************)
\* os.UserHomeDir when it succeeds
HomeDir == <<"/", "h">>

\* filepath.IsAbs (Unix)
IsAbs(path) == path # <<>> /\ path[1] = "/"

\* filepath.Dir (Unix): the path up to its last separator, cleaned
pathDir(path) ==
    LET seps == { i \in DOMAIN path : path[i] = "/" }
        last == IF seps = {} THEN 0 ELSE CHOOSE i \in seps : \A j \in seps : j <= i
    IN  pathClean(SubSeq(path, 1, last))

\* expandPath: a leading "~/" replaced by the home directory
expandPath(path) ==
    IF Len(path) >= 2 /\ SubSeq(path, 1, 2) = <<"~", "/">>
    THEN pathJoin(HomeDir, SubSeq(path, 3, Len(path)))
    ELSE path

\* SaveGlobalConfig(configPath, cfg): the config file afterwards; saved tells
\* whether creating the directory and the file succeeded
SaveGlobalConfig(file, cfg, saved) == IF saved THEN tomlEncode(cfg) ELSE file

\* a directory / a file with its content, as files holds them
DirEntry(path) == [path |-> path, dir |-> TRUE, content |-> <<>>]
FileEntry(path, content) == [path |-> path, dir |-> FALSE, content |-> content]

\* os.MkdirAll(dir) and os.WriteFile(path, content) when they succeed
MkdirAll(fs, dir) == fs \cup {DirEntry(dir)}
WriteFile(fs, path, content) == { f \in fs : f.path # path } \cup {FileEntry(path, content)}

\* JSON-RPC responses
ErrorResponse(code, msg) == [kind |-> "error", code |-> code, message |-> ErrorNew(msg)]
SavedResponse(path) == [kind |-> "result", content |-> <<[saved |-> path]>>]

NotConfigured == "Configuration not set up. Please run bckt_setup first"

\* mutant of currentRootPath: the configured root path is never found
currentRootPath_Unset(gc) == <<>>

\* the root path a relative path is resolved under, "" when none is configured
currentRootPath(gc) == IF gc # Nil THEN gc.RootPath ELSE <<>>

\* the arguments of the bckt_save calls the process handles
SaveInputs ==
    [Markdown : {<<>>, <<"m", "d">>},
     Path : {<<>>, <<"a", ".", "m", "d">>, <<"/", "a", "b", "s", "/", "b", ".", "m", "d">>},
     RootPath : {<<>>, <<"/", "s">>}]

\* the call as args keeps it: the tool, the decoded arguments (None when
\* they do not decode), and *globalConfig, the config file and the files as
\* they were when the call began
Call(tool, input) ==
    [tool |-> tool, input |-> input, config |-> globalConfig, file |-> configFile, files |-> files]

\* the next request on stdin calls the tool
Requested(tool) == pc = "serving" /\ stdin # <<>> /\ Head(stdin) = tool

\* HandleBcktSave with arguments that do not decode
SaveInvalid ==
    /\ args' = Call("bckt_save", None)
    /\ ret' = ErrorResponse(-32602, "Invalid arguments")
    /\ UNCHANGED <<globalConfig, configFile, files>>

\* HandleBcktSave from "Create directories if needed" on
SaveWrite(finalPath, markdown, made, written) ==
    IF ~made
    THEN /\ ret' = ErrorResponse(1, "Failed to create directories")
         /\ UNCHANGED files
    ELSE IF ~written
         THEN /\ ret' = ErrorResponse(1, "Failed to write file")
              /\ files' = MkdirAll(files, pathDir(finalPath))
         ELSE /\ ret' = SavedResponse(finalPath)
              /\ files' = WriteFile(MkdirAll(files, pathDir(finalPath)), finalPath, markdown)

\* HandleBcktSave(id, params, globalConfig).  The handler receives the
\* server's pointer by value: when it is nil, the Config the handler makes
\* for it is the handler's own, and the server's pointer stays nil.
HandleBcktSave ==
    /\ Requested("bckt_save")
    /\ stdin' = Tail(stdin)
    /\ UNCHANGED <<pc, stdout>>
    /\ \/ SaveInvalid
       \/ \E a \in SaveInputs, saved \in BOOLEAN, made \in BOOLEAN, written \in BOOLEAN :
            /\ args' = Call("bckt_save", a)
            /\ IF a.Markdown = <<>> \/ a.Path = <<>>
               THEN /\ ret' = ErrorResponse(-32602, "markdown and path are required")
                    /\ UNCHANGED <<globalConfig, configFile, files>>
               ELSE IF IsAbs(a.Path)
               THEN /\ SaveWrite(a.Path, a.Markdown, made, written)
                    /\ UNCHANGED <<globalConfig, configFile>>
               ELSE IF currentRootPath(globalConfig) # <<>>
               THEN /\ SaveWrite(pathJoin(currentRootPath(globalConfig), a.Path), a.Markdown, made, written)
                    /\ UNCHANGED <<globalConfig, configFile>>
               ELSE IF a.RootPath = <<>>
               THEN /\ ret' = ErrorResponse(-32602, NotConfigured)
                    /\ UNCHANGED <<globalConfig, configFile, files>>
               ELSE LET cfg == [startConfig(globalConfig) EXCEPT !.RootPath = a.RootPath]
                    IN  /\ globalConfig' = IF globalConfig # Nil THEN cfg ELSE Nil
                        /\ configFile' = SaveGlobalConfig(configFile, cfg, saved)
                        /\ IF ~saved
                           THEN /\ ret' = ErrorResponse(1, "Failed to save root_path to config")
                                /\ UNCHANGED files
                           ELSE SaveWrite(pathJoin(a.RootPath, a.Path), a.Markdown, made, written)

\* the arguments of the bckt_setup calls the process handles
SetupInputs ==
    [RootPath : {<<"~", "/", "b">>, <<"/", "t">>},
     Timezone : {"Asia/Tokyo"},
     PathPattern : {<<>>, <<"{", "s", "l", "u", "g", "}", ".", "m", "d">>},
     WrapAt : {0, 80},
     Confirm : BOOLEAN]

\* mutant of setupValues: omitted values are not replaced by the defaults
setupValues_NoDefaults(a) ==
    [RootPath |-> expandPath(a.RootPath), Timezone |-> a.Timezone,
     PathPattern |-> a.PathPattern, WrapAt |-> a.WrapAt]

\* "Use provided values or defaults": the four values bckt_setup works with
setupValues(a) ==
    [RootPath |-> expandPath(a.RootPath),
     Timezone |-> a.Timezone,
     PathPattern |-> IF a.PathPattern = <<>> THEN GetDefaultConfig.PathPattern ELSE a.PathPattern,
     WrapAt |-> IF a.WrapAt = 0 THEN GetDefaultConfig.WrapAt ELSE a.WrapAt]

\* "(*globalConfig).RootPath = rootPath" and the three assignments after it
setupConfig(cfg, v) ==
    [cfg EXCEPT !.RootPath = v.RootPath, !.Timezone = v.Timezone,
                !.PathPattern = v.PathPattern, !.WrapAt = v.WrapAt]

\* HandleBcktSetup(id, params, &globalConfig): the handler receives the
\* address of the server's pointer, so the Config it makes for a nil pointer
\* becomes the server's
HandleBcktSetup ==
    /\ Requested("bckt_setup")
    /\ stdin' = Tail(stdin)
    /\ UNCHANGED <<pc, stdout, files>>
    /\ \/ /\ args' = Call("bckt_setup", None)
          /\ ret' = ErrorResponse(-32602, "Invalid arguments")
          /\ UNCHANGED <<globalConfig, configFile>>
       \/ \E a \in SetupInputs, saved \in BOOLEAN :
            LET v == setupValues(a)
                cfg == setupConfig(startConfig(globalConfig), v)
            IN  /\ args' = Call("bckt_setup", a)
                /\ IF ~a.Confirm
                   THEN /\ ret' = [kind |-> "result", content |-> <<[preview |-> v]>>]
                        /\ UNCHANGED <<globalConfig, configFile>>
                   ELSE /\ globalConfig' = cfg
                        /\ configFile' = SaveGlobalConfig(configFile, cfg, saved)
                        /\ ret' = IF saved
                                  THEN [kind |-> "result", content |-> <<[saved |-> v]>>]
                                  ELSE ErrorResponse(1, "Failed to save config")

\* the arguments of the bckt_config calls the process handles
ConfigInputs ==
    [RootPath : {<<>>, <<"~", "/", "c">>},
     Timezone : {"", "Europe/Athens"},
     PathPattern : {<<>>, <<"{", "D", "D", "}", ".", "m", "d">>},
     WrapAt : {0, 60}]

isUpdate(a) == a.RootPath # <<>> \/ a.Timezone # "" \/ a.PathPattern # <<>> \/ a.WrapAt # 0

\* "Update config": only the fields the call gives are assigned
updateConfig(cfg, a) ==
    [cfg EXCEPT !.RootPath = IF a.RootPath # <<>> THEN expandPath(a.RootPath) ELSE @,
                !.Timezone = IF a.Timezone # "" THEN a.Timezone ELSE @,
                !.PathPattern = IF a.PathPattern # <<>> THEN a.PathPattern ELSE @,
                !.WrapAt = IF a.WrapAt # 0 THEN a.WrapAt ELSE @]

\* "View current config": what the view prints
configView(cfg) ==
    [RootPath |-> cfg.RootPath, Timezone |-> cfg.Timezone, PathPattern |-> cfg.PathPattern,
     WrapAt |-> cfg.WrapAt, Required |-> cfg.Required, Defaults |-> cfg.Defaults]

\* HandleBcktConfig(id, params, globalConfig).  Like HandleBcktSave it
\* receives the server's pointer by value: the Config it makes for a nil
\* pointer is the handler's own.
HandleBcktConfig ==
    /\ Requested("bckt_config")
    /\ stdin' = Tail(stdin)
    /\ UNCHANGED <<pc, stdout, files>>
    /\ \/ /\ args' = Call("bckt_config", None)
          /\ ret' = ErrorResponse(-32602, "Invalid arguments")
          /\ UNCHANGED <<globalConfig, configFile>>
       \/ \E a \in ConfigInputs, saved \in BOOLEAN :
            LET cfg == updateConfig(startConfig(globalConfig), a)
            IN  /\ args' = Call("bckt_config", a)
                /\ IF ~isUpdate(a)
                   THEN /\ ret' = [kind |-> "result", content |-> <<[view |-> configView(cfg)]>>]
                        /\ UNCHANGED <<globalConfig, configFile>>
                   ELSE /\ globalConfig' = IF globalConfig # Nil THEN cfg ELSE Nil
                        /\ configFile' = SaveGlobalConfig(configFile, cfg, saved)
                        /\ ret' = IF saved
                                  THEN [kind |-> "result", content |-> <<[updated |-> a]>>]
                                  ELSE ErrorResponse(1, "Failed to save config")

(***************************************************************************)
(* SpecTools: the server process handling the bckt_save, bckt_setup and    *)
(* bckt_config calls of its input, after loading the configuration.  The   *)
(* home directory resolves.                                                *)
(***************************************************************************)
Tools == {"bckt_save", "bckt_setup", "bckt_config"}

\* the tool calls on the process's input, in order
ToolCalls == UNION { [1..n -> Tools] : n \in 1..MaxCalls }

InitTools ==
    /\ pc = "start"
    /\ args = None
    /\ ret = None
    /\ globalConfig = Nil
    /\ configFile \in ConfigFiles \ {NoHome}
    /\ files = {}
    /\ stdin \in ToolCalls
    /\ stdout = <<>>

NextTools == LoadConfig \/ HandleBcktSave \/ HandleBcktSetup \/ HandleBcktConfig

SpecTools == InitTools /\ [][NextTools]_vars

(***************************************************************************)
(* bckt_save: the first root_path                                          *)
(***************************************************************************)
\* the call just handled is tool, with arguments that decoded
Handled(tool) == args # None /\ args.tool = tool /\ args.input # None

\* the call just handled is a bckt_save that reached the path resolution with
\* a relative path
SavedRelative ==
    /\ Handled("bckt_save")
    /\ args.input.Markdown # <<>>
    /\ args.input.Path # <<>>
    /\ ~IsAbs(args.input.Path)

\* the call just handled is a bckt_save that supplied root_path while no root
\* path was configured, and it succeeded
FirstRootSaved ==
    /\ SavedRelative
    /\ currentRootPath(args.config) = <<>>
    /\ args.input.RootPath # <<>>
    /\ ret.kind = "result"

\* C24: once a bckt_save that supplied root_path while no root path was
\* configured has succeeded, a following bckt_save with a relative path and no
\* root_path argument does not return the "not configured" error, and when it
\* succeeds its file is under that root path.
C24_RootPathStored ==
    [][(FirstRootSaved /\ SavedRelative' /\ args'.input.RootPath = <<>>) =>
          /\ ret' # ErrorResponse(-32602, NotConfigured)
          /\ ret'.kind = "result" => ret' = SavedResponse(pathJoin(args.input.RootPath, args'.input.Path))]_vars

(***************************************************************************)
(* bckt_save: what it rejects, and where it writes                         *)
(***************************************************************************)
\* a root path was configured when the call just handled began
RootConfigured == args.config # Nil /\ args.config.RootPath # <<>>

\* the call just handled left the configuration alone, in memory and on disk
ConfigKept == globalConfig = args.config /\ configFile = args.file

\* the call just handled succeeded, reported path, and wrote there the
\* markdown of the call, adding at most that file and its directory
WrittenTo(path) ==
    /\ ret = SavedResponse(path)
    /\ FileEntry(path, args.input.Markdown) \in files
    /\ \A f \in files : f.path = path => f = FileEntry(path, args.input.Markdown)
    /\ \A f \in files \ args.files : f \in {FileEntry(path, args.input.Markdown), DirEntry(pathDir(path))}
    /\ \A f \in args.files \ files : f.path = path

\* C25: bckt_save with an empty markdown or path, or with a relative path, no
\* configured root path and no root_path argument, returns error -32602 and
\* changes neither the files nor the configuration; with an absolute path it
\* leaves the configuration alone and on success has written exactly that
\* path; with a configured root path it ignores the root_path argument.
C25_SaveRejectsAndResolves ==
    Handled("bckt_save") =>
        LET a == args.input
            empty == a.Markdown = <<>> \/ a.Path = <<>>
            configured == RootConfigured
        IN  /\ (empty \/ (~IsAbs(a.Path) /\ ~configured /\ a.RootPath = <<>>)) =>
                  /\ ret.kind = "error" /\ ret.code = -32602
                  /\ files = args.files
                  /\ ConfigKept
            /\ (~empty /\ IsAbs(a.Path)) =>
                  /\ ConfigKept
                  /\ ret.kind = "result" => WrittenTo(a.Path)
            /\ (~empty /\ ~IsAbs(a.Path) /\ configured) =>
                  /\ ConfigKept
                  /\ ret.kind = "result" => WrittenTo(pathJoin(args.config.RootPath, a.Path))

\* a relative path with a root_path argument is saved under the configured
\* root path instead, over files an earlier call wrote
C25_Witness ==
    /\ SavedRelative
    /\ RootConfigured
    /\ args.input.RootPath # <<>>
    /\ args.input.RootPath # args.config.RootPath
    /\ args.files # {}
    /\ ret.kind = "result"

(***************************************************************************)
(* bckt_setup                                                              *)
(***************************************************************************)
\* the configuration the call just handled started from
ConfigBefore == startConfig(args.config)

\* the call just handled, a confirmed bckt_setup, made root the root path and
\* set timezone, path pattern and wrap width as given (defaults for omitted
\* ones), kept required and defaults, and when it succeeded persisted that
SetupApplied(root) ==
    LET a == args.input
    IN  /\ globalConfig # Nil
        /\ globalConfig.RootPath = root
        /\ globalConfig.Timezone = a.Timezone
        /\ globalConfig.PathPattern = (IF a.PathPattern = <<>> THEN DefaultPattern ELSE a.PathPattern)
        /\ globalConfig.WrapAt = (IF a.WrapAt = 0 THEN 100 ELSE a.WrapAt)
        /\ globalConfig.Required = ConfigBefore.Required
        /\ globalConfig.Defaults = ConfigBefore.Defaults
        /\ ret.kind = "result" => configFile = tomlEncode(globalConfig)

\* C26 as stated: bckt_setup without confirm=true changes neither the
\* in-memory nor the persisted configuration; with confirm=true the root
\* path is the given root_path, timezone, path pattern and wrap width are
\* the given ones (defaults when omitted), required and defaults are kept,
\* and the result is persisted.
C26_SetupAsGiven ==
    Handled("bckt_setup") =>
        IF args.input.Confirm THEN SetupApplied(args.input.RootPath)
        ELSE ret.kind = "result" /\ ConfigKept

\* C26 amended: the same, the root path being the given root_path with a
\* leading "~/" replaced by the home directory.
C26_SetupExpanded ==
    Handled("bckt_setup") =>
        IF args.input.Confirm
        THEN SetupApplied(IF SubSeq(args.input.RootPath, 1, 2) = <<"~", "/">>
                          THEN HomeDir \o SubSeq(args.input.RootPath, 2, Len(args.input.RootPath))
                          ELSE args.input.RootPath)
        ELSE ret.kind = "result" /\ ConfigKept

\* a confirmed bckt_setup that omits path pattern and wrap width succeeded on
\* a configuration whose pattern, width and required list were not the defaults
C26_Witness ==
    /\ Handled("bckt_setup")
    /\ args.input.Confirm
    /\ args.input.PathPattern = <<>>
    /\ args.input.WrapAt = 0
    /\ args.config # Nil
    /\ args.config.PathPattern # DefaultPattern
    /\ args.config.WrapAt # 100
    /\ args.config.Required # GetDefaultConfig.Required
    /\ ret.kind = "result"

(***************************************************************************)
(* bckt_config                                                             *)
(***************************************************************************)
\* the configuration the calls after the one just handled work with: the
\* server's, or the built-in defaults when its pointer is nil
ConfigAfter == startConfig(globalConfig)

\* C27: bckt_config without root_path, timezone, path_pattern and wrap_at
\* changes neither the in-memory nor the persisted configuration; with some
\* of them, when it succeeds, it has changed the given fields and left every
\* other field as it was, and the later calls of the process work with the
\* updated values.
C27_ConfigViewAndUpdate ==
    Handled("bckt_config") =>
        LET a == args.input
        IN  IF a.RootPath = <<>> /\ a.Timezone = "" /\ a.PathPattern = <<>> /\ a.WrapAt = 0
            THEN ret.kind = "result" /\ ConfigKept
            ELSE ret.kind = "result" =>
                 /\ ConfigAfter.RootPath =
                        (IF a.RootPath # <<>> THEN expandPath(a.RootPath) ELSE ConfigBefore.RootPath)
                 /\ ConfigAfter.Timezone = (IF a.Timezone # "" THEN a.Timezone ELSE ConfigBefore.Timezone)
                 /\ ConfigAfter.PathPattern =
                        (IF a.PathPattern # <<>> THEN a.PathPattern ELSE ConfigBefore.PathPattern)
                 /\ ConfigAfter.WrapAt = (IF a.WrapAt # 0 THEN a.WrapAt ELSE ConfigBefore.WrapAt)
                 /\ ConfigAfter.Required = ConfigBefore.Required
                 /\ ConfigAfter.Defaults = ConfigBefore.Defaults

(***************************************************************************)
(* SaveGlobalConfig fails                                                  *)
(***************************************************************************)
\* the call just handled returned because SaveGlobalConfig failed
SaveFailed ==
    /\ args # None
    /\ ret \in {ErrorResponse(1, "Failed to save config"),
                ErrorResponse(1, "Failed to save root_path to config")}

\* C28: when persisting the configuration fails in bckt_setup, bckt_config
\* or bckt_save, the call returns an error and the in-memory configuration
\* is the same as before the call.
C28_FailedSaveRolledBack ==
    SaveFailed => globalConfig = args.config

(***************************************************************************)
(* SpecLoop: main, the request loop over stdin and stdout.  stdin holds    *)
(* the lines not read yet, stdout the response lines written, args the     *)
(* lines read so far.                                                      *)
(***************************************************************************)
\* the methods handleRequest knows
KnownMethods ==
    {"initialize", "initialized", "notifications/initialized", "tools/list",
     "tools/call", "prompts/list", "prompts/get"}

\* the methods of the requests on the input
Methods == KnownMethods \cup {"resources/list"}

Notifications == {"initialized", "notifications/initialized"}

\* the arguments of the bckt calls on the input: the second has a date that
\* is not a string
LoopInputs ==
    { [Raw |-> <<"h", "i">>, Meta |-> Map1("title", TitleMyPost), Config |-> TomlEmpty, Strategy |-> ""],
      [Raw |-> <<"h", "i">>, Meta |-> Map2("title", TitleMyPost, "date", BoolV(FALSE)),
       Config |-> TomlEmpty, Strategy |-> ""] }

\* the params of a request, as the handler of its method decodes them; None:
\* they do not decode
ParamsOf(method) ==
    CASE method = "tools/call" ->
             {None, [name |-> "delete", input |-> None]}
             \cup { [name |-> "bckt", input |-> i] : i \in LoopInputs }
      [] method = "prompts/get" ->
             {None, [name |-> "format_blog_post", input |-> None], [name |-> "other", input |-> None]}
      [] OTHER -> {None}

Ids == {1, 2}

\* a line that json.Unmarshal decodes into a Request
RequestLines ==
    UNION { { [kind |-> "request", id |-> i, method |-> m, params |-> p] : i \in Ids, p \in ParamsOf(m) } :
            m \in Methods }

\* a line of white space only, and a line that is not the JSON of a request
BlankLine == [kind |-> "blank"]
MalformedLine == [kind |-> "malformed"]

Lines == RequestLines \cup {BlankLine, MalformedLine}

\* the text after the last line break of the input: ReadString returns it
\* together with io.EOF
Unterminated == [kind |-> "unterminated"]

\* the process's input: lines ending in a line break, and possibly a last one
\* that does not
Inputs ==
    UNION { { ls \o rest : ls \in [1..n -> Lines], rest \in {<<>>, <<Unterminated>>} } :
            n \in 0..MaxLines }

InitLoop ==
    /\ pc = "start"
    /\ args = <<>>
    /\ ret = None
    /\ globalConfig = Nil
    /\ configFile \in {NoFile, TomlBad}
    /\ files = {}
    /\ stdin \in Inputs
    /\ stdout = <<>>

\* a Response: the id of the request and the result or error
Response(id, body) == [id |-> id, body |-> body]

\* handleRequest for the methods whose handler reads no state: the body of
\* the response
handleStateless(req) ==
    CASE req.method = "initialize" -> [kind |-> "result", content |-> <<[protocolVersion |-> "2025-06-18"]>>]
      [] req.method = "tools/list" -> [kind |-> "result", content |-> <<[tools |-> {"bckt", "bckt_preview", "bckt_save"}]>>]
      [] req.method = "prompts/list" -> [kind |-> "result", content |-> <<[prompts |-> {"format_blog_post"}]>>]
      [] req.method = "prompts/get" ->
             IF req.params = None THEN ErrorResponse(-32602, "Invalid params")
             ELSE IF req.params.name # "format_blog_post" THEN ErrorResponse(-32602, "Unknown prompt")
             ELSE [kind |-> "result", content |-> <<[messages |-> "format_blog_post"]>>]
      [] req.method = "tools/call" ->
             IF req.params = None THEN ErrorResponse(-32602, "Invalid params")
             ELSE ErrorResponse(-32601, "Unknown tool")
      [] OTHER -> ErrorResponse(-32601, "Method not found")

\* the request goes to handleBcktFormat
IsFormatCall(req) ==
    req.method = "tools/call" /\ req.params # None /\ req.params.name \in {"bckt", "bckt_preview"}

\* readMessage took the first line of stdin
ReadLine(line) ==
    /\ pc = "serving"
    /\ stdin # <<>>
    /\ line = Head(stdin)
    /\ stdin' = Tail(stdin)
    /\ args' = Append(args, line)

\* readMessage returns io.EOF at the end of the input, for a last line without
\* line break and for a blank line: main returns
ReadEOF ==
    /\ pc = "serving"
    /\ \/ stdin = <<>> /\ UNCHANGED <<stdin, args>>
       \/ \E line \in {Unterminated, BlankLine} : ReadLine(line)
    /\ pc' = "exited"
    /\ UNCHANGED <<ret, globalConfig, configFile, files, stdout>>

\* readMessage returns the error of json.Unmarshal: main continues
ReadMalformed ==
    /\ ReadLine(MalformedLine)
    /\ UNCHANGED <<pc, ret, globalConfig, configFile, files, stdout>>

\* writeMessage(writer, response): written tells whether the write and the
\* flush succeeded; main returns when they did not
writeMessage(response, written) ==
    /\ ret' = response
    /\ stdout' = IF written THEN Append(stdout, response) ELSE stdout
    /\ pc' = IF written THEN "serving" ELSE "broken"

\* one turn of the loop for a request that handleRequest answers without
\* calling a tool; a notification gets the nil response and nothing is
\* written
HandleRequest ==
    \E req \in RequestLines :
        /\ ReadLine(req)
        /\ ~IsFormatCall(req)
        /\ IF req.method \in Notifications
           THEN UNCHANGED <<pc, ret, stdout>>
           ELSE \E written \in BOOLEAN : writeMessage(Response(req.id, handleStateless(req)), written)
        /\ UNCHANGED <<globalConfig, configFile, files>>

\* one turn of the loop for a tools/call of bckt: handleBcktFormat; a panic
\* in formatContent ends the process
HandleFormatCall ==
    \E req \in RequestLines :
        /\ ReadLine(req)
        /\ IsFormatCall(req)
        /\ \E now \in Instants, written \in BOOLEAN :
             \E order \in formatOrders(req.params.input, globalConfig) :
                LET out == FormatContent(req.params.input, globalConfig, order, now)
                IN  /\ globalConfig' = configAfterFormat(req.params.input, globalConfig)
                    /\ IF out.kind = "panic"
                       THEN pc' = "crashed" /\ ret' = out /\ UNCHANGED stdout
                       ELSE writeMessage(Response(req.id, formatResponse(out, req.params.name = "bckt_preview")), written)
        /\ UNCHANGED <<configFile, files>>

NextLoop == LoadConfig \/ ReadEOF \/ ReadMalformed \/ HandleRequest \/ HandleFormatCall

SpecLoop == InitLoop /\ [][NextLoop]_vars

\* a well-formed request line whose method is not a notification
Answerable(line) == line.kind = "request" /\ line.method \notin Notifications

\* the lines of a sequence that are to be answered, in order
ToAnswer(lines) == SelectSeq(lines, Answerable)

\* the process has ended other than by a failed write to stdout
Ended == pc \in {"exited", "crashed"}

\* C29: every well-formed request line whose method is not a notification
\* gets exactly one response line with its id before the next line is read,
\* in the order of the requests; an unknown method gets error -32601 "Method
\* not found"; notifications get no response; and the process does not end
\* with a request line unread.
C29_OneResponsePerRequest ==
    pc # "broken" =>
        /\ Len(stdout) = Len(ToAnswer(args))
        /\ \A i \in DOMAIN stdout :
              /\ stdout[i].id = ToAnswer(args)[i].id
              /\ ToAnswer(args)[i].method \notin KnownMethods =>
                    stdout[i].body = ErrorResponse(-32601, "Method not found")
        /\ Ended => ToAnswer(stdin) = <<>>

====
